---- MODULE Spec2Model ----
(***************************************************************************)
(* Memories MCP server (Lab 14): the collection resolver with its          *)
(* process-wide cache and lock, and the tool operations save_memory,       *)
(* search_memory, list_memories, get_memory_content and delete_memory,     *)
(* run by concurrent callers against the remote vector-store service.      *)
(*                                                                         *)
(* Strings are sequences of one-character strings; None and "" are both    *)
(* the empty sequence (the code only tests their truthiness).  Remote      *)
(* identifiers are pairs <<"vs", n>> and <<"file", n>>.  Every remote call *)
(* is one atomic step that either returns or raises.                       *)
(***************************************************************************)
EXTENDS Naturals, Integers, Sequences, FiniteSets, TLC

\* ------------------------------------------------------------------ bounds
NumThreads == 2
MaxFaults == 1
MaxStores == 2
ServerPageCap == 1
MaxUploads == 1

MaxTextLen == 2

Threads == 1..NumThreads

\* ------------------------------------------------------- program constants
VECTOR_STORE_NAME == "MEMORIES_STORE"
OtherStoreName == "OTHER_STORE"
ListLimit == 100

NoId == <<>>
EnvId == <<"vs", 0>>
NoThread == 0

Truthy(x) == x # <<>>

VARIABLES
    VECTOR_STORE_ID_ENV,    \* MEMORIES_VECTOR_STORE_ID, read once at start
    MAX_MEMORY_CHARS,       \* MEMORIES_MAX_CHARS, read once at start
    vector_store_id_cache,  \* _vector_store_id_cache
    vector_store_lock,      \* holder of _vector_store_lock, NoThread if free
    pc,                     \* position of each caller
    op,                     \* tool each caller is running
    loc,                    \* locals of each caller's invocation
    res,                    \* outcome of each caller's invocation
    log,                    \* remote calls issued by the current invocation
    stores,                 \* remote: the collections, in listing order
    files,                  \* remote: the documents of the collections
    nextFile,               \* remote: number of document ids handed out
    faults,                 \* transport failures injected so far
    scans,                  \* history: find-or-create round trips begun
    creates                 \* history: create-collection calls, by outcome

vars == <<VECTOR_STORE_ID_ENV, MAX_MEMORY_CHARS, vector_store_id_cache,
          vector_store_lock, pc, op, loc, res, log, stores, files, nextFile,
          faults, scans, creates>>

\* ------------------------------------------------------------ exceptions
\* What a remote call can raise, by the classes the except clauses of the
\* code tell apart: a signature mismatch (TypeError, told apart by
\* search_memory only), a missing client method (AttributeError, told apart
\* by get_memory_content only), or any other failure of the service.
TypeError == [kind |-> "TypeError", msg |-> "unexpected keyword argument"]
AttributeError == [kind |-> "AttributeError", msg |-> "object has no attribute"]
APIError == [kind |-> "APIError", msg |-> "request failed"]

Failures(call) ==
    CASE call = "search" -> {TypeError, APIError}
      [] call = "content" -> {AttributeError, APIError}
      [] OTHER -> {APIError}

NotFound == [kind |-> "APIError", msg |-> "not found"]

\* An exception rendered without its message.
StrOfNothing(e) == ""

\* str(e)
StrOf(e) == e.msg

NoResult == [pending |-> TRUE]
Raised(e) == [exception |-> e.kind, message |-> e.msg]

\* ------------------------------------------------------- remote service
Min(a, b) == IF a < b THEN a ELSE b

RECURSIVE IndexOfId(_, _, _)
IndexOfId(seq, id, i) ==
    IF i > Len(seq) THEN 0
    ELSE IF seq[i].id = id THEN i
    ELSE IndexOfId(seq, id, i + 1)

\* client.vector_stores.list(limit, after): one page in listing order,
\* starting behind the cursor, of at most limit items (the service may cap
\* the page lower), with has_more and last_id.
RemoteListStores(all, limit, after) ==
    LET start == IF Truthy(after) THEN IndexOfId(all, after, 1) ELSE 0
        rest == SubSeq(all, start + 1, Len(all))
        n == Min(Len(rest), Min(limit, ServerPageCap))
        data == SubSeq(rest, 1, n)
    IN [data |-> data,
        has_more |-> Len(rest) > n,
        last_id |-> IF n = 0 THEN NoId ELSE data[n].id]

\* client.vector_stores.create(name): the new collection, appended.
NewStore(all, name) == [id |-> <<"vs", Len(all) + 1>>, name |-> name]

\* ------------------------------------------------------------------ text
UpperLetters ==
    {"A", "B", "C", "D", "E", "F", "G", "H", "I", "J", "K", "L", "M", "N",
     "O", "P", "Q", "R", "S", "T", "U", "V", "W", "X", "Y", "Z"}
LowerLetters ==
    {"a", "b", "c", "d", "e", "f", "g", "h", "i", "j", "k", "l", "m", "n",
     "o", "p", "q", "r", "s", "t", "u", "v", "w", "x", "y", "z"}
Digits ==
    {"0", "1", "2", "3", "4", "5", "6", "7", "8", "9"}
Whitespace == {" ", "\t", "\n", "\r", "\f"}
WordChars == UpperLetters \cup LowerLetters \cup Digits \cup {"_"}
Quotes == {"'", "\""}

UpperSeq ==
    <<"A", "B", "C", "D", "E", "F", "G", "H", "I", "J", "K", "L", "M", "N",
     "O", "P", "Q", "R", "S", "T", "U", "V", "W", "X", "Y", "Z">>
LowerSeq ==
    <<"a", "b", "c", "d", "e", "f", "g", "h", "i", "j", "k", "l", "m", "n",
     "o", "p", "q", "r", "s", "t", "u", "v", "w", "x", "y", "z">>

\* str.lower() of one character
LowerChar(c) ==
    IF c \in UpperLetters
    THEN LowerSeq[CHOOSE i \in 1..Len(UpperSeq) : UpperSeq[i] = c]
    ELSE c

RECURSIVE LStrip(_)
LStrip(s) ==
    IF s = <<>> THEN s
    ELSE IF Head(s) \in Whitespace THEN LStrip(Tail(s)) ELSE s

RECURSIVE RStrip(_)
RStrip(s) ==
    IF s = <<>> THEN s
    ELSE IF s[Len(s)] \in Whitespace THEN RStrip(SubSeq(s, 1, Len(s) - 1))
    ELSE s

\* str.strip()
Strip(s) == RStrip(LStrip(s))

\* s[:n]
Take(s, n) == SubSeq(s, 1, Min(n, Len(s)))

\* ------------------------------------------------------------- redaction
\* A pattern is a sequence of items: a run of min..max characters of a class
\* (max = Unbounded for + and *), a word boundary \b, or one of several
\* literal words.  ci is the (?i) flag of the pattern.
Unbounded == 0 - 1
Run(set, min, max) == [t |-> "run", set |-> set, neg |-> FALSE, min |-> min, max |-> max]
RunNot(set, min, max) == [t |-> "run", set |-> set, neg |-> TRUE, min |-> min, max |-> max]
Boundary == [t |-> "b"]
Words(alts) == [t |-> "words", alts |-> alts]

TokenChars == UpperLetters \cup LowerLetters \cup Digits
                  \cup {"-", ".", "_", "~", "+", "/"}

SECRET_PATTERNS ==
    << [ci |-> TRUE,
        items |-> << Boundary,
                     Words({<<"a","u","t","h","o","r","i","z","a","t","i","o","n",":">>}),
                     Run(Whitespace, 0, Unbounded),
                     Words({<<"b","e","a","r","e","r">>}),
                     Run(Whitespace, 1, Unbounded),
                     Run(TokenChars, 1, Unbounded),
                     Run({"="}, 0, Unbounded),
                     Boundary >>],
       [ci |-> TRUE,
        items |-> << Boundary,
                     Words({<<"b","e","a","r","e","r">>}),
                     Run(Whitespace, 1, Unbounded),
                     Run(TokenChars, 1, Unbounded),
                     Run({"="}, 0, Unbounded),
                     Boundary >>],
       [ci |-> FALSE,
        items |-> << Boundary,
                     Words({<<"A","K","I","A">>}),
                     Run(Digits \cup UpperLetters, 16, 16),
                     Boundary >>],
       [ci |-> TRUE,
        items |-> << Boundary,
                     Words({<<"o","p","e","n","a","i">>, <<"a","p","i">>}),
                     Run({"-", "_", " "}, 0, 1),
                     Words({<<"k","e","y">>}),
                     Boundary,
                     Run(Whitespace, 0, Unbounded),
                     Run({":", "="}, 1, 1),
                     Run(Whitespace, 0, Unbounded),
                     Run(Quotes, 0, 1),
                     RunNot(Quotes \cup Whitespace, 1, Unbounded) >>],
       [ci |-> TRUE,
        items |-> << Boundary,
                     Words({<<"t","o","k","e","n">>}),
                     Boundary,
                     Run(Whitespace, 0, Unbounded),
                     Run({":", "="}, 1, 1),
                     Run(Whitespace, 0, Unbounded),
                     Run(Quotes, 0, 1),
                     RunNot(Quotes \cup Whitespace, 1, Unbounded) >>] >>

\* A replacement text that itself holds a secret.
RedactedEcho == <<"t", "o", "k", "e", "n", "=", "a", " ", "a">>

REDACTED == <<"[", "R", "E", "D", "A", "C", "T", "E", "D", "]">>

\* \b at position p (between text[p] and text[p+1])
IsBoundary(text, p) ==
    LET before == p >= 1 /\ text[p] \in WordChars
        after == p < Len(text) /\ text[p + 1] \in WordChars
    IN before # after

InClass(item, c) == IF item.neg THEN c \notin item.set ELSE c \in item.set

\* Length of the longest run of class characters behind position p.
RECURSIVE RunLength(_, _, _)
RunLength(item, text, p) ==
    IF p < Len(text) /\ InClass(item, text[p + 1])
    THEN 1 + RunLength(item, text, p + 1)
    ELSE 0

WordAt(w, ci, text, p) ==
    /\ p + Len(w) <= Len(text)
    /\ \A i \in 1..Len(w) :
          IF ci THEN LowerChar(text[p + i]) = LowerChar(w[i])
          ELSE text[p + i] = w[i]

\* Positions at which item can end when it starts at p.
Consume(item, ci, text, p) ==
    CASE item.t = "b" -> IF IsBoundary(text, p) THEN {p} ELSE {}
      [] item.t = "words" ->
            {p + Len(w) : w \in {a \in item.alts : WordAt(a, ci, text, p)}}
      [] item.t = "run" ->
            LET n == RunLength(item, text, p)
                top == IF item.max = Unbounded THEN n ELSE Min(n, item.max)
            IN {p + k : k \in item.min..top}

RECURSIVE MatchEnds(_, _, _, _)
MatchEnds(items, ci, text, ps) ==
    IF items = <<>> \/ ps = {} THEN ps
    ELSE MatchEnds(Tail(items), ci, text,
                   UNION {Consume(Head(items), ci, text, p) : p \in ps})

SetMax(S) == CHOOSE m \in S : \A x \in S : x <= m

\* End of the match of pat that starts at p, or Unbounded if there is none.
\* Each pattern is a chain of greedy runs over classes that exclude what
\* follows them, so the match the regex engine returns is the longest one.
MatchEnd(pat, text, p) ==
    LET ends == MatchEnds(pat.items, pat.ci, text, {p})
    IN IF ends = {} THEN Unbounded ELSE SetMax(ends)

\* pat.sub("[REDACTED]", text): leftmost non-overlapping matches, scanning
\* from position p.
RECURSIVE SubFrom(_, _, _)
SubFrom(pat, text, p) ==
    IF p >= Len(text) THEN <<>>
    ELSE LET e == MatchEnd(pat, text, p)
         IN IF e = Unbounded
            THEN <<text[p + 1]>> \o SubFrom(pat, text, p + 1)
            ELSE REDACTED \o SubFrom(pat, text, e)

RECURSIVE RedactWith(_, _)
RedactWith(pats, text) ==
    IF pats = <<>> THEN text
    ELSE RedactWith(Tail(pats), SubFrom(Head(pats), text, 0))

\* _redact_secrets
RedactSecrets(text) == RedactWith(SECRET_PATTERNS, text)

\* A digest that does not depend on the text.
Sha256Constant(text) == <<"sha256", <<>>>>

\* _sha256_text: the digest, kept as the text it is the digest of (SHA-256
\* is taken to be collision free).
Sha256Text(text) == <<"sha256", text>>

\* ------------------------------------------------------------ attributes
REDACT_SECRETS_DEFAULT == TRUE
DefaultMaxChars == 8000
AttrStrMax == 64
TagsJsonMax == 512
SafeUserMax == 32

\* json.dumps of one character inside a string (ensure_ascii=False)
JsonEscape(c) ==
    CASE c = "\"" -> <<"\\", "\"">>
      [] c = "\\" -> <<"\\", "\\">>
      [] c = "\n" -> <<"\\", "n">>
      [] c = "\r" -> <<"\\", "r">>
      [] c = "\t" -> <<"\\", "t">>
      [] c = "\f" -> <<"\\", "f">>
      [] OTHER -> <<c>>

RECURSIVE JsonChars(_)
JsonChars(s) ==
    IF s = <<>> THEN <<>> ELSE JsonEscape(Head(s)) \o JsonChars(Tail(s))

JsonString(s) == <<"\"">> \o JsonChars(s) \o <<"\"">>

RECURSIVE JsonItems(_)
JsonItems(list) ==
    IF list = <<>> THEN <<>>
    ELSE IF Len(list) = 1 THEN JsonString(list[1])
    ELSE JsonString(list[1]) \o <<",", " ">> \o JsonItems(Tail(list))

\* json.dumps(tags, ensure_ascii=False) of a list of strings
JsonDumps(list) == <<"[">> \o JsonItems(list) \o <<"]">>

\* _utc_now_iso(): the clock is outside the program
UtcNowIso == <<"n", "o", "w">>

\* lines 334-347: the attribute mapping of save_memory
SaveAttributes(user_id, memory_type, mem_hash, do_redact, session_id, tags) ==
    LET base == [user_id |-> Take(user_id, AttrStrMax),
                 type |-> Take(memory_type, AttrStrMax),
                 timestamp_utc |-> Take(UtcNowIso, AttrStrMax),
                 sha256 |-> mem_hash,  \* [:64] of a 64-character hexdigest
                 redacted |-> do_redact]
        withSession == IF Truthy(session_id)
                       THEN [session_id |-> Take(session_id, AttrStrMax)] @@ base
                       ELSE base
    IN IF Truthy(tags)
       THEN [tags_json |-> Take(JsonDumps(tags), TagsJsonMax)] @@ withSession
       ELSE withSession

\* line 322: re.sub(r"[^a-zA-Z0-9_\-]", "_", user_id)[:32]
SafeUser(user_id) ==
    Take([i \in 1..Len(user_id) |->
             IF user_id[i] \in WordChars \cup {"-"} THEN user_id[i] ELSE "_"],
         SafeUserMax)

\* line 323, without the clock's seconds
Filename(user_id) ==
    <<"m", "e", "m", "o", "r", "y", "_">> \o SafeUser(user_id)
        \o <<"_", ".", "t", "x", "t">>

\* The process default whatever the caller passes.
DoRedactDefault(redact_secrets) == REDACT_SECRETS_DEFAULT

\* line 312
DoRedact(redact_secrets) ==
    IF redact_secrets = "None" THEN REDACT_SECRETS_DEFAULT
    ELSE redact_secrets = "True"

\* ---------------------------------------------------------------- filters
NoFilter == <<>>
EqLeaf(key, value) == [type |-> "eq", key |-> key, value |-> value]

\* The builder without the single-leaf case of lines 255-256.
BuildAlwaysConjunction(user_id, session_id, tags, memory_type) ==
    LET filters ==
            (IF Truthy(user_id) THEN <<EqLeaf("user_id", user_id)>> ELSE <<>>)
         \o (IF Truthy(session_id)
             THEN <<EqLeaf("session_id", session_id)>> ELSE <<>>)
         \o (IF Truthy(memory_type)
             THEN <<EqLeaf("type", memory_type)>> ELSE <<>>)
         \o (IF Truthy(tags)
             THEN <<EqLeaf("tags_json", JsonDumps(tags))>> ELSE <<>>)
    IN IF filters = <<>> THEN NoFilter
       ELSE [type |-> "and", filters |-> filters]

\* _build_attribute_filter
BuildAttributeFilter(user_id, session_id, tags, memory_type) ==
    LET filters ==
            (IF Truthy(user_id) THEN <<EqLeaf("user_id", user_id)>> ELSE <<>>)
         \o (IF Truthy(session_id)
             THEN <<EqLeaf("session_id", session_id)>> ELSE <<>>)
         \o (IF Truthy(memory_type)
             THEN <<EqLeaf("type", memory_type)>> ELSE <<>>)
         \o (IF Truthy(tags)
             THEN <<EqLeaf("tags_json", JsonDumps(tags))>> ELSE <<>>)
    IN IF filters = <<>> THEN NoFilter
       ELSE IF Len(filters) = 1 THEN filters[1]
       ELSE [type |-> "and", filters |-> filters]

\* The service's reading of a filter against a document's attributes.
LeafHolds(leaf, attrs) ==
    /\ leaf.key \in DOMAIN attrs
    /\ attrs[leaf.key] = leaf.value

FilterHolds(f, attrs) ==
    IF f = NoFilter THEN TRUE
    ELSE IF f.type = "eq" THEN LeafHolds(f, attrs)
    ELSE \A i \in 1..Len(f.filters) : LeafHolds(f.filters[i], attrs)

\* ------------------------------------------------- remote documents
NoAttrs == <<>>

HasFile(all, vs, fid) == \E i \in 1..Len(all) : all[i].id = fid /\ all[i].vs = vs

FileOf(all, fid) == all[IndexOfId(all, fid, 1)]

RECURSIVE SelectSeq2(_, _, _)
SelectSeq2(seq, vs, f) ==
    IF seq = <<>> THEN <<>>
    ELSE IF Head(seq).vs = vs /\ FilterHolds(f, Head(seq).attributes)
         THEN <<Head(seq)>> \o SelectSeq2(Tail(seq), vs, f)
         ELSE SelectSeq2(Tail(seq), vs, f)

RECURSIVE Reverse(_)
Reverse(seq) ==
    IF seq = <<>> THEN <<>> ELSE Append(Reverse(Tail(seq)), Head(seq))

RECURSIVE WithoutId(_, _)
WithoutId(seq, fid) ==
    IF seq = <<>> THEN <<>>
    ELSE IF Head(seq).id = fid THEN WithoutId(Tail(seq), fid)
    ELSE <<Head(seq)>> \o WithoutId(Tail(seq), fid)

\* client.vector_stores.files.upload_and_poll
NewFile(n, vs, text, filename) ==
    [id |-> <<"file", n + 1>>, vs |-> vs, text |-> text,
     filename |-> filename, attributes |-> NoAttrs]

\* client.vector_stores.files.update(attributes=...)
WithAttributes(all, fid, attrs) ==
    [i \in 1..Len(all) |->
        IF all[i].id = fid THEN [all[i] EXCEPT !.attributes = attrs] ELSE all[i]]

\* client.vector_stores.search: the documents of the collection that pass the
\* filter, at most max_num_results of them.
RemoteSearch(all, vs, f, max_num_results) ==
    LET hits == SelectSeq2(all, vs, f)
    IN [data |-> SubSeq(hits, 1, Min(max_num_results, Len(hits))),
        has_more |-> Len(hits) > max_num_results]

\* client.vector_stores.files.list(limit, filter, order="desc"): a document
\* is "completed" once upload_and_poll has returned.
RemoteListFiles(all, vs, limit, status_filter) ==
    LET mine == IF status_filter \in {"None", "completed"}
                THEN Reverse(SelectSeq2(all, vs, NoFilter))
                ELSE <<>>
        n == Min(limit, Len(mine))
    IN [data |-> SubSeq(mine, 1, n),
        has_more |-> Len(mine) > n,
        last_id |-> IF n = 0 THEN NoId ELSE mine[n].id]

\* ---------------------------------------------------------------- resolver
\* A scan that recognises no collection.
FirstMatchNever(data) == NoId

\* for store in page.data: if store.name == VECTOR_STORE_NAME: ... return
RECURSIVE FirstMatch(_)
FirstMatch(data) ==
    IF data = <<>> THEN NoId
    ELSE IF Head(data).name = VECTOR_STORE_NAME THEN Head(data).id
    ELSE FirstMatch(Tail(data))

\* The fast path never taken.
FastPathNever(c) == FALSE

\* line 140: if _vector_store_id_cache
FastPathHit(c) == Truthy(c)

\* A lock that excludes nobody.
LockAlwaysAvailable(l) == TRUE

\* A lock no caller ever gets.
LockNeverAvailable(l) == FALSE

\* line 143: with _vector_store_lock (blocks while another caller holds it)
LockAvailable(l) == l = NoThread

\* The re-check inside the lock left out.
DoubleCheckNever(c) == FALSE

\* line 145: if _vector_store_id_cache (inside the lock)
DoubleCheckHit(c) == Truthy(c)

\* First statement of each tool after the resolver has returned.
BodyStart(tool) ==
    CASE tool = "save" -> "upload"
      [] tool = "search" -> "search"
      [] tool = "list" -> "files_list"
      [] tool = "get" -> "retrieve"
      [] tool = "delete" -> "delete"

\* One remote call of an invocation: the call, whether it returned, the
\* collection and document it named, and what it returned or raised.
LogEntry(call, ok, vs, fid, arg) ==
    [call |-> call, ok |-> ok, vs |-> vs, fid |-> fid, arg |-> arg,
     param |-> "", bound |-> 0]

\* A search call: param is the keyword the filter was passed as.
SearchEntry(ok, vs, param, arg) ==
    [call |-> "search", ok |-> ok, vs |-> vs, fid |-> NoId, arg |-> arg,
     param |-> param, bound |-> 0]

\* The entry of a call that was passed n as its result bound
\* (max_num_results of search, limit of files.list).
WithBound(entry, n) == [entry EXCEPT !.bound = n]

NoArgs == [tool |-> "none"]

NoLocals ==
    [vector_store_id |-> NoId, after |-> NoId, file_id |-> NoId,
     args |-> NoArgs, do_redact |-> FALSE, cleaned |-> <<>>,
     max_results |-> 0, attribute_filter |-> NoFilter,
     page |-> <<>>, todo |-> <<>>, items |-> <<>>, attrs |-> NoAttrs]

\* The resolver returns id to the tool that called it.
Resolved(t, id) ==
    /\ pc' = [pc EXCEPT ![t] = BodyStart(op[t])]
    /\ loc' = [loc EXCEPT ![t].vector_store_id = id]
    /\ res' = res

\* The failure swallowed: the tool goes on without an identifier.
ResolverSwallows(t, e) ==
    /\ pc' = [pc EXCEPT ![t] = BodyStart(op[t])]
    /\ res' = res
    /\ loc' = loc

\* No tool calls the resolver inside a try: what it raises leaves the tool.
ResolverRaises(t, e) ==
    /\ pc' = [pc EXCEPT ![t] = "raised"]
    /\ res' = [res EXCEPT ![t] = Raised(e)]
    /\ loc' = loc

\* lines 139-141
ResolveFast(t) ==
    /\ pc[t] = "resolve"
    /\ IF FastPathHit(vector_store_id_cache)
       THEN Resolved(t, vector_store_id_cache)
       ELSE /\ pc' = [pc EXCEPT ![t] = "lock"]
            /\ UNCHANGED <<loc, res>>
    /\ UNCHANGED <<VECTOR_STORE_ID_ENV, MAX_MEMORY_CHARS, vector_store_id_cache,
                   vector_store_lock, op, log, stores, files, nextFile,
                   faults, scans, creates>>

\* line 143
AcquireLock(t) ==
    /\ pc[t] = "lock"
    /\ LockAvailable(vector_store_lock)
    /\ vector_store_lock' = t
    /\ pc' = [pc EXCEPT ![t] = "dcheck"]
    /\ UNCHANGED <<VECTOR_STORE_ID_ENV, MAX_MEMORY_CHARS, vector_store_id_cache,
                   op, loc, res, log, stores, files, nextFile, faults, scans,
                   creates>>

\* lines 145-151
DoubleCheck(t) ==
    /\ pc[t] = "dcheck"
    /\ IF DoubleCheckHit(vector_store_id_cache)
       THEN /\ Resolved(t, vector_store_id_cache)
            /\ vector_store_lock' = NoThread
            /\ scans' = scans
       ELSE /\ pc' = [pc EXCEPT ![t] = "scan"]
            /\ loc' = [loc EXCEPT ![t].after = NoId]
            /\ scans' = scans + 1
            /\ UNCHANGED <<res, vector_store_lock>>
    /\ UNCHANGED <<VECTOR_STORE_ID_ENV, MAX_MEMORY_CHARS, vector_store_id_cache,
                   op, log, stores, files, nextFile, faults, creates>>

\* lines 152-165: one iteration of the paging loop
ListPage(t) ==
    /\ pc[t] = "scan"
    /\ \/ LET page == RemoteListStores(stores, ListLimit, loc[t].after)
              hit == FirstMatch(page.data)
          IN /\ log' = [log EXCEPT ![t] = Append(@,
                            LogEntry("list_stores", TRUE, NoId, NoId, "ok"))]
             /\ IF Truthy(hit)
                THEN /\ vector_store_id_cache' = hit
                     /\ vector_store_lock' = NoThread
                     /\ Resolved(t, hit)
                ELSE /\ UNCHANGED <<vector_store_id_cache, vector_store_lock,
                                    res>>
                     /\ IF page.has_more /\ Truthy(page.last_id)
                        THEN /\ loc' = [loc EXCEPT ![t].after = page.last_id]
                             /\ pc' = pc
                        ELSE /\ loc' = loc
                             /\ pc' = [pc EXCEPT ![t] = "create"]
             /\ faults' = faults
       \/ \E e \in Failures("list_stores") :
             /\ faults < MaxFaults
             /\ faults' = faults + 1
             /\ log' = [log EXCEPT ![t] = Append(@,
                            LogEntry("list_stores", FALSE, NoId, NoId, e.kind))]
             /\ vector_store_lock' = NoThread
             /\ ResolverRaises(t, e)
             /\ UNCHANGED vector_store_id_cache
    /\ UNCHANGED <<VECTOR_STORE_ID_ENV, MAX_MEMORY_CHARS, op, stores, files,
                   nextFile, scans, creates>>

\* lines 168-171.  A create call that raises may or may not have taken
\* effect in the service.
CreateStore(t) ==
    /\ pc[t] = "create"
    /\ \/ LET created == NewStore(stores, VECTOR_STORE_NAME)
          IN /\ stores' = Append(stores, created)
             /\ vector_store_id_cache' = created.id
             /\ vector_store_lock' = NoThread
             /\ Resolved(t, created.id)
             /\ log' = [log EXCEPT ![t] = Append(@,
                            LogEntry("create_store", TRUE, created.id, NoId, "ok"))]
             /\ creates' = [creates EXCEPT !.ok = @ + 1]
             /\ faults' = faults
       \/ \E e \in Failures("create_store"), took \in BOOLEAN :
             /\ faults < MaxFaults
             /\ faults' = faults + 1
             /\ stores' = IF took
                          THEN Append(stores, NewStore(stores, VECTOR_STORE_NAME))
                          ELSE stores
             /\ log' = [log EXCEPT ![t] = Append(@,
                            LogEntry("create_store", FALSE, NoId, NoId, e.kind))]
             /\ creates' = [creates EXCEPT !.failed = @ + 1]
             /\ vector_store_lock' = NoThread
             /\ ResolverRaises(t, e)
             /\ UNCHANGED vector_store_id_cache
    /\ UNCHANGED <<VECTOR_STORE_ID_ENV, MAX_MEMORY_CHARS, op, files, nextFile,
                   scans>>

config == <<VECTOR_STORE_ID_ENV, MAX_MEMORY_CHARS>>
resolverState == <<vector_store_id_cache, vector_store_lock, stores, scans,
                   creates>>

\* ------------------------------------------------------------ tool inputs
Chars == {" ", "a"}
Texts(n) == UNION {[1..k -> Chars] : k \in 0..n}
NoteType == <<"n", "o", "t", "e">>

SaveInputs ==
    [tool : {"save"}, memory : Texts(MaxTextLen), user_id : {<<"u">>},
     session_id : {<<>>}, memory_type : {NoteType}, tags : {<<>>},
     redact_secrets : {"None"}]

\* Tool calls that have yet to upload a document.
Uploading ==
    {u \in Threads : op[u] = "save" /\ pc[u] \in
        {"resolve", "lock", "dcheck", "scan", "create", "upload"}}

Call(t, tool, locals) ==
    /\ op' = [op EXCEPT ![t] = tool]
    /\ pc' = [pc EXCEPT ![t] = "resolve"]
    /\ loc' = [loc EXCEPT ![t] = locals]
    /\ res' = res

Return(t, result) ==
    /\ pc' = [pc EXCEPT ![t] = "returned"]
    /\ res' = [res EXCEPT ![t] = result]

Raise(t, e) ==
    /\ pc' = [pc EXCEPT ![t] = "raised"]
    /\ res' = [res EXCEPT ![t] = Raised(e)]

ErrorResult(msg) == [status |-> "error", error |-> msg]

Logged(t, entry) == log' = [log EXCEPT ![t] = Append(@, entry)]

\* ------------------------------------------------------------ save_memory
\* The emptiness test without the trimming.
MemoryIsEmptyUntrimmed(memory) == ~Truthy(memory)

\* line 303: not memory.strip()
MemoryIsEmpty(memory) == ~Truthy(Strip(memory))

\* line 306: len(memory) > MAX_MEMORY_CHARS
MemoryTooLong(memory, max) == Len(memory) > max

\* lines 303-315, for the arguments of inputs; uploads caps the documents
\* the saves may upload in all.
SaveFrom(t, inputs, uploads) ==
    /\ pc[t] = "idle"
    /\ \E a \in inputs :
          IF MemoryIsEmpty(a.memory)
          THEN /\ Return(t, ErrorResult("memory deve ser uma string nao-vazia"))
               /\ op' = [op EXCEPT ![t] = "save"]
               /\ loc' = [loc EXCEPT ![t] = [NoLocals EXCEPT !.args = a]]
          ELSE IF MemoryTooLong(a.memory, MAX_MEMORY_CHARS)
          THEN /\ Return(t, ErrorResult("memory excede o limite do lab"))
               /\ op' = [op EXCEPT ![t] = "save"]
               /\ loc' = [loc EXCEPT ![t] = [NoLocals EXCEPT !.args = a]]
          ELSE /\ nextFile + Cardinality(Uploading) < uploads
               /\ LET do_redact == DoRedact(a.redact_secrets)
                  IN Call(t, "save",
                          [NoLocals EXCEPT
                              !.args = a,
                              !.do_redact = do_redact,
                              !.cleaned = IF do_redact
                                          THEN RedactSecrets(a.memory)
                                          ELSE a.memory])
    /\ UNCHANGED <<config, resolverState, log, files, nextFile, faults>>

SaveCall(t) == SaveFrom(t, SaveInputs, MaxUploads)

\* Phase 2 entered whatever phase 1 did.
SaveAlwaysUpdates(ok) == "update"

\* lines 325-331, 364-366: what follows phase 1
SaveAfterUpload(ok) == IF ok THEN "update" ELSE "returned"

\* lines 327-331: _upload_text_as_file_to_vector_store
Upload(t) ==
    /\ pc[t] = "upload"
    /\ \/ LET f == NewFile(nextFile, loc[t].vector_store_id, loc[t].cleaned,
                           Filename(loc[t].args.user_id))
          IN /\ files' = Append(files, f)
             /\ nextFile' = nextFile + 1
             /\ loc' = [loc EXCEPT ![t].file_id = f.id]
             /\ pc' = [pc EXCEPT ![t] = SaveAfterUpload(TRUE)]
             /\ Logged(t, LogEntry("upload", TRUE, f.vs, f.id, "ok"))
             /\ UNCHANGED <<res, faults>>
       \/ \E e \in Failures("upload") :
             /\ faults < MaxFaults
             /\ faults' = faults + 1
             /\ pc' = [pc EXCEPT ![t] = SaveAfterUpload(FALSE)]
             /\ res' = [res EXCEPT ![t] = ErrorResult(StrOf(e))]
             /\ Logged(t, LogEntry("upload", FALSE, loc[t].vector_store_id,
                                   NoId, e.kind))
             /\ UNCHANGED <<loc, files, nextFile>>
    /\ UNCHANGED <<config, resolverState, op>>

\* line 350-354: the document the attribute update is sent for
UpdateTarget(vector_store_id, file_id) ==
    [vs |-> vector_store_id, fid |-> file_id]

\* A success result whatever phase 2 did.
SaveResultAlwaysSaved(ok, e, vector_store_id, file_id, mem_hash, attributes) ==
    [status |-> "saved", vector_store_id |-> vector_store_id,
     file_id |-> file_id, sha256 |-> mem_hash, attributes |-> attributes]

\* lines 356-366: what save_memory returns after phase 2
SaveResult(ok, e, vector_store_id, file_id, mem_hash, attributes) ==
    IF ok
    THEN [status |-> "saved", vector_store_id |-> vector_store_id,
          file_id |-> file_id, sha256 |-> mem_hash, attributes |-> attributes]
    ELSE ErrorResult(StrOf(e))

\* The hash taken of the caller's text instead.
HashedRaw(memory, cleaned) == memory

\* line 318: the text _sha256_text is applied to
HashedText(memory, cleaned) == cleaned

\* lines 334-366: phase 2.  The service refuses a document it does not hold.
Update(t) ==
    /\ pc[t] = "update"
    /\ LET l == loc[t]
           mem_hash == Sha256Text(HashedText(l.args.memory, l.cleaned))
           attributes == SaveAttributes(l.args.user_id, l.args.memory_type,
                                        mem_hash, l.do_redact,
                                        l.args.session_id, l.args.tags)
           target == UpdateTarget(l.vector_store_id, l.file_id)
       IN \/ /\ HasFile(files, target.vs, target.fid)
             /\ files' = WithAttributes(files, target.fid, attributes)
             /\ Return(t, SaveResult(TRUE, NotFound, l.vector_store_id,
                                     l.file_id, mem_hash, attributes))
             /\ Logged(t, LogEntry("update", TRUE, target.vs, target.fid, "ok"))
             /\ faults' = faults
          \/ /\ ~HasFile(files, target.vs, target.fid)
             /\ files' = files
             /\ Return(t, SaveResult(FALSE, NotFound, l.vector_store_id,
                                     l.file_id, mem_hash, attributes))
             /\ Logged(t, LogEntry("update", FALSE, target.vs, target.fid,
                                   NotFound.kind))
             /\ faults' = faults
          \/ \E e \in Failures("update") :
                /\ faults < MaxFaults
                /\ faults' = faults + 1
                /\ files' = files
                /\ Return(t, SaveResult(FALSE, e, l.vector_store_id,
                                        l.file_id, mem_hash, attributes))
                /\ Logged(t, LogEntry("update", FALSE, target.vs, target.fid,
                                      e.kind))
    /\ UNCHANGED <<config, resolverState, op, loc, nextFile>>

\* ---------------------------------------------------------- search_memory
SearchMaxResults == 50
ListMaxLimit == 100

Max(a, b) == IF a > b THEN a ELSE b

\* The clamp without its lower bound.
ClampAbove(n, top) == Min(n, top)

\* max(1, min(int(n), top))
Clamp(n, top) == Max(1, Min(n, top))

SearchInputs ==
    [tool : {"search"}, query : Texts(1), user_id : {<<"u">>},
     session_id : {<<>>}, memory_type : {<<>>}, tags : {<<>>},
     max_results : {8}, rewrite_query : {TRUE},
     return_full_items : BOOLEAN]

\* line 393: not query.strip()
QueryIsEmpty(query) == ~Truthy(Strip(query))

\* lines 393-406, for the arguments of inputs
SearchFrom(t, inputs) ==
    /\ pc[t] = "idle"
    /\ \E a \in inputs :
          IF QueryIsEmpty(a.query)
          THEN /\ Return(t, ErrorResult("query deve ser uma string nao-vazia"))
               /\ op' = [op EXCEPT ![t] = "search"]
               /\ loc' = [loc EXCEPT ![t] = [NoLocals EXCEPT !.args = a]]
          ELSE Call(t, "search",
                    [NoLocals EXCEPT
                        !.args = a,
                        !.max_results = Clamp(a.max_results, SearchMaxResults),
                        !.attribute_filter =
                            BuildAttributeFilter(a.user_id, a.session_id,
                                                 a.tags, a.memory_type)])
    /\ UNCHANGED <<config, resolverState, log, files, nextFile, faults>>

SearchCall(t) == SearchFrom(t, SearchInputs)

\* A blanket except around the first attempt.
AnyFailureIsMismatch(e) == TRUE

\* line 423: except TypeError
IsSignatureMismatch(e) == e.kind = "TypeError"

\* lines 436-471: the result mapping, compact or with full items.  Every
\* document comes back as one text chunk; search_query is the query sent.
SearchResult(results, vector_store_id, query, return_full_items) ==
    [status |-> "ok",
     vector_store_id |-> vector_store_id,
     search_query |-> query,
     results |-> [i \in 1..Len(results.data) |->
                     IF return_full_items
                     THEN [file_id |-> results.data[i].id,
                           filename |-> results.data[i].filename,
                           attributes |-> results.data[i].attributes,
                           content_texts |-> <<results.data[i].text>>]
                     ELSE results.data[i].text],
     has_more |-> results.has_more]

\* One client.vector_stores.search call of search_memory, with the filter
\* passed as param.  inTry: the call stands in the try of lines 414-423,
\* whose except clause sends a signature mismatch to the second call.
SearchAttempt(t, param, inTry) ==
    LET l == loc[t]
    IN \/ /\ Return(t, SearchResult(
                    RemoteSearch(files, l.vector_store_id, l.attribute_filter,
                                 l.max_results),
                    l.vector_store_id, l.args.query,
                    l.args.return_full_items))
          /\ Logged(t, WithBound(SearchEntry(TRUE, l.vector_store_id, param,
                                               "ok"), l.max_results))
          /\ faults' = faults
       \/ \E e \in Failures("search") :
             /\ faults < MaxFaults
             /\ faults' = faults + 1
             /\ Logged(t, WithBound(SearchEntry(FALSE, l.vector_store_id,
                                                  param, e.kind),
                                      l.max_results))
             /\ IF inTry /\ IsSignatureMismatch(e)
                THEN /\ pc' = [pc EXCEPT ![t] = "search_fallback"]
                     /\ res' = res
                ELSE Raise(t, e)

\* lines 414-423: the attempt with filters=
Search(t) ==
    /\ pc[t] = "search"
    /\ SearchAttempt(t, "filters", TRUE)
    /\ UNCHANGED <<config, resolverState, op, loc, files, nextFile>>

\* lines 425-431: the attempt with attribute_filter=, outside any try
SearchFallback(t) ==
    /\ pc[t] = "search_fallback"
    /\ SearchAttempt(t, "attribute_filter", FALSE)
    /\ UNCHANGED <<config, resolverState, op, loc, files, nextFile>>

\* ---------------------------------------------------------- list_memories
ListInputs ==
    [tool : {"list"}, user_id : {<<>>, <<"u">>, <<"v">>}, limit : {20},
     status_filter : {"completed"}]

\* line 489, for the arguments of inputs
ListFrom(t, inputs) ==
    /\ pc[t] = "idle"
    /\ \E a \in inputs : Call(t, "list", [NoLocals EXCEPT !.args = a])
    /\ UNCHANGED <<config, resolverState, log, files, nextFile, faults>>

ListCall(t) == ListFrom(t, ListInputs)

\* lines 515-522
ListResult(vector_store_id, items, page) ==
    [status |-> "ok", vector_store_id |-> vector_store_id,
     count |-> Len(items), items |-> items,
     has_more |-> page.has_more, last_id |-> page.last_id]

\* lines 490-497: client.vector_stores.files.list
FilesList(t) ==
    /\ pc[t] = "files_list"
    /\ LET l == loc[t]
           limit == Clamp(l.args.limit, ListMaxLimit)
           page == RemoteListFiles(files, l.vector_store_id, limit,
                                   l.args.status_filter)
       IN \/ /\ Logged(t, WithBound(LogEntry("files_list", TRUE,
                                             l.vector_store_id, NoId, "ok"),
                                    limit))
             /\ faults' = faults
             /\ IF page.data = <<>>
                THEN /\ Return(t, ListResult(l.vector_store_id, <<>>, page))
                     /\ loc' = [loc EXCEPT
                                   ![t].page = [has_more |-> page.has_more,
                                                last_id |-> page.last_id]]
                ELSE /\ pc' = [pc EXCEPT ![t] = "list_retrieve"]
                     /\ res' = res
                     /\ loc' = [loc EXCEPT
                                   ![t].page = [has_more |-> page.has_more,
                                                last_id |-> page.last_id],
                                   ![t].todo = [i \in 1..Len(page.data) |->
                                                   page.data[i].id],
                                   ![t].items = <<>>]
          \/ \E e \in Failures("files_list") :
                /\ faults < MaxFaults
                /\ faults' = faults + 1
                /\ Logged(t, WithBound(LogEntry("files_list", FALSE,
                                                l.vector_store_id, NoId,
                                                e.kind), limit))
                /\ Raise(t, e)
                /\ loc' = loc
    /\ UNCHANGED <<config, resolverState, op, files, nextFile>>

\* The filter of line 504 dropped: every listed document is kept.
ListKeepsAll(user_id, attrs) == TRUE

\* line 504: if user_id and attrs.get("user_id") != user_id: continue
ListKeeps(user_id, attrs) ==
    ~(Truthy(user_id)
        /\ (IF "user_id" \in DOMAIN attrs THEN attrs.user_id ELSE NoId) # user_id)

\* lines 501-513: one iteration, client.vector_stores.files.retrieve
ListRetrieve(t) ==
    /\ pc[t] = "list_retrieve"
    /\ LET l == loc[t]
           fid == Head(l.todo)
           failed(e) ==
               /\ Logged(t, LogEntry("retrieve", FALSE, l.vector_store_id, fid,
                                     e.kind))
               /\ Raise(t, e)
               /\ loc' = loc
       IN \/ /\ HasFile(files, l.vector_store_id, fid)
             /\ Logged(t, LogEntry("retrieve", TRUE, l.vector_store_id, fid,
                                   "ok"))
             /\ faults' = faults
             /\ LET attrs == FileOf(files, fid).attributes
                    items == IF ListKeeps(l.args.user_id, attrs)
                             THEN Append(l.items,
                                         [file_id |-> fid, status |-> "completed",
                                          attributes |-> attrs])
                             ELSE l.items
                IN IF Tail(l.todo) = <<>>
                   THEN /\ Return(t, ListResult(l.vector_store_id, items, l.page))
                        /\ loc' = [loc EXCEPT ![t].todo = <<>>,
                                              ![t].items = items]
                   ELSE /\ loc' = [loc EXCEPT ![t].todo = Tail(l.todo),
                                              ![t].items = items]
                        /\ UNCHANGED <<pc, res>>
          \/ /\ ~HasFile(files, l.vector_store_id, fid)
             /\ faults' = faults
             /\ failed(NotFound)
          \/ \E e \in Failures("retrieve") :
                /\ faults < MaxFaults
                /\ faults' = faults + 1
                /\ failed(e)
    /\ UNCHANGED <<config, resolverState, op, files, nextFile>>

\* ----------------------------------------------------- get_memory_content
FileIdInputs == {<<"file", n>> : n \in 1..(MaxUploads + 1)}

GetInputs == [tool : {"get"}, file_id : FileIdInputs]

\* line 535
GetCall(t) ==
    /\ pc[t] = "idle"
    /\ \E a \in GetInputs :
          Call(t, "get", [NoLocals EXCEPT !.args = a, !.file_id = a.file_id])
    /\ UNCHANGED <<config, resolverState, log, files, nextFile, faults>>

\* lines 538-539: client.vector_stores.files.retrieve, outside the try
GetRetrieve(t) ==
    /\ pc[t] = "retrieve"
    /\ LET l == loc[t]
           failed(e) ==
               /\ Logged(t, LogEntry("retrieve", FALSE, l.vector_store_id,
                                     l.file_id, e.kind))
               /\ Raise(t, e)
               /\ loc' = loc
       IN \/ /\ HasFile(files, l.vector_store_id, l.file_id)
             /\ Logged(t, LogEntry("retrieve", TRUE, l.vector_store_id,
                                   l.file_id, "ok"))
             /\ faults' = faults
             /\ loc' = [loc EXCEPT ![t].attrs = FileOf(files, l.file_id).attributes]
             /\ pc' = [pc EXCEPT ![t] = "content"]
             /\ res' = res
          \/ /\ ~HasFile(files, l.vector_store_id, l.file_id)
             /\ faults' = faults
             /\ failed(NotFound)
          \/ \E e \in Failures("retrieve") :
                /\ faults < MaxFaults
                /\ faults' = faults + 1
                /\ failed(e)
    /\ UNCHANGED <<config, resolverState, op, files, nextFile>>

\* lines 557-570: the except clauses of get_memory_content
ContentError(e, vector_store_id, file_id, attrs) ==
    IF e.kind = "AttributeError"
    THEN [status |-> "error",
          error |-> "Seu openai SDK nao expoe client.vector_stores.files.content(...). Atualize o pacote openai.",
          vector_store_id |-> vector_store_id, file_id |-> file_id,
          attributes |-> attrs]
    ELSE [status |-> "error", error |-> StrOf(e),
          vector_store_id |-> vector_store_id, file_id |-> file_id]

\* lines 542-570: client.vector_stores.files.content and the reading of what
\* it returns.  The client may lack the method (AttributeError before any
\* request), and what it returns may be a mapping (with .get) or an object
\* without .get, on which line 548 raises AttributeError.
GetContent(t) ==
    /\ pc[t] = "content"
    /\ LET l == loc[t]
           entry(ok, arg) == LogEntry("content", ok, l.vector_store_id,
                                      l.file_id, arg)
       IN \/ /\ HasFile(files, l.vector_store_id, l.file_id)
             /\ faults' = faults
             /\ \/ /\ Logged(t, entry(TRUE, "mapping"))
                   /\ Return(t, [status |-> "ok",
                                 vector_store_id |-> l.vector_store_id,
                                 file_id |-> l.file_id,
                                 attributes |-> l.attrs,
                                 content_texts |->
                                    SelectSeq(<<FileOf(files, l.file_id).text>>,
                                              Truthy)])
                \/ /\ Logged(t, entry(TRUE, "object"))
                   /\ Return(t, ContentError(
                                   [kind |-> "AttributeError",
                                    msg |-> "object has no attribute 'get'"],
                                   l.vector_store_id, l.file_id, l.attrs))
          \/ /\ ~HasFile(files, l.vector_store_id, l.file_id)
             /\ faults' = faults
             /\ Logged(t, entry(FALSE, NotFound.kind))
             /\ Return(t, ContentError(NotFound, l.vector_store_id, l.file_id,
                                       l.attrs))
          \/ \E e \in Failures("content") :
                /\ faults < MaxFaults
                /\ faults' = faults + 1
                /\ Logged(t, entry(FALSE, e.kind))
                /\ Return(t, ContentError(e, l.vector_store_id, l.file_id,
                                          l.attrs))
    /\ UNCHANGED <<config, resolverState, op, loc, files, nextFile>>

\* ----------------------------------------------------------- delete_memory
DeleteInputs == [tool : {"delete"}, file_id : FileIdInputs]

\* line 578
DeleteCall(t) ==
    /\ pc[t] = "idle"
    /\ \E a \in DeleteInputs :
          Call(t, "delete", [NoLocals EXCEPT !.args = a, !.file_id = a.file_id])
    /\ UNCHANGED <<config, resolverState, log, files, nextFile, faults>>

\* lines 579-592: client.vector_stores.files.delete
Delete(t) ==
    /\ pc[t] = "delete"
    /\ LET l == loc[t]
           failed(e) ==
               /\ Logged(t, LogEntry("delete", FALSE, l.vector_store_id,
                                     l.file_id, e.kind))
               /\ Return(t, [status |-> "error", error |-> StrOf(e),
                             vector_store_id |-> l.vector_store_id,
                             file_id |-> l.file_id])
               /\ files' = files
       IN \/ /\ HasFile(files, l.vector_store_id, l.file_id)
             /\ files' = WithoutId(files, l.file_id)
             /\ Logged(t, LogEntry("delete", TRUE, l.vector_store_id,
                                   l.file_id, "ok"))
             /\ Return(t, [status |-> "ok",
                           vector_store_id |-> l.vector_store_id,
                           file_id |-> l.file_id, deleted |-> TRUE])
             /\ faults' = faults
          \/ /\ ~HasFile(files, l.vector_store_id, l.file_id)
             /\ faults' = faults
             /\ failed(NotFound)
          \/ \E e \in Failures("delete") :
                /\ faults < MaxFaults
                /\ faults' = faults + 1
                /\ failed(e)
    /\ UNCHANGED <<config, resolverState, op, loc, nextFile>>

\* The dispatcher takes the outcome; the caller is free for its next call.
Finish(t) ==
    /\ pc[t] \in {"returned", "raised"}
    /\ pc' = [pc EXCEPT ![t] = "idle"]
    /\ op' = [op EXCEPT ![t] = "none"]
    /\ loc' = [loc EXCEPT ![t] = NoLocals]
    /\ res' = [res EXCEPT ![t] = NoResult]
    /\ log' = [log EXCEPT ![t] = <<>>]
    /\ UNCHANGED <<config, resolverState, files, nextFile, faults>>

\* ------------------------------------------------------------------ system
StoreNames == {VECTOR_STORE_NAME, OtherStoreName}

InitialListings ==
    UNION { { [i \in 1..k |-> [id |-> <<"vs", i>>, name |-> names[i]]] :
                names \in [1..k -> StoreNames] } : k \in 0..MaxStores }

Init ==
    /\ VECTOR_STORE_ID_ENV \in {NoId, EnvId}
    /\ MAX_MEMORY_CHARS = MaxTextLen - 1
    /\ vector_store_id_cache = VECTOR_STORE_ID_ENV
    /\ vector_store_lock = NoThread
    /\ pc = [t \in Threads |-> "idle"]
    /\ op = [t \in Threads |-> "none"]
    /\ loc = [t \in Threads |-> NoLocals]
    /\ res = [t \in Threads |-> NoResult]
    /\ log = [t \in Threads |-> <<>>]
    /\ stores \in IF Truthy(VECTOR_STORE_ID_ENV) THEN {<<>>} ELSE InitialListings
    /\ files = <<>>
    /\ nextFile = 0
    /\ faults = 0
    /\ scans = 0
    /\ creates = [ok |-> 0, failed |-> 0]

Next ==
    \E t \in Threads :
        \/ SaveCall(t)
        \/ SearchCall(t)
        \/ ListCall(t)
        \/ GetCall(t)
        \/ DeleteCall(t)
        \/ ResolveFast(t)
        \/ AcquireLock(t)
        \/ DoubleCheck(t)
        \/ ListPage(t)
        \/ CreateStore(t)
        \/ Upload(t)
        \/ Update(t)
        \/ Search(t)
        \/ SearchFallback(t)
        \/ FilesList(t)
        \/ ListRetrieve(t)
        \/ GetRetrieve(t)
        \/ GetContent(t)
        \/ Delete(t)
        \/ Finish(t)

Spec == Init /\ [][Next]_vars

\* ------------------------------------------------ the query tools alone
\* search_memory and list_memories over the whole range of their filter and
\* bound arguments, with the collection identifier configured.
MaxTags == 2
TagNames == {<<"a">>, <<"b">>}
TagLists == UNION {[1..k -> TagNames] : k \in 0..MaxTags}
BoundInputs == {0 - 1, 0, 1, 3, 49, 50, 51, 99, 100, 101, 500, 9999}

QuerySearchInputs ==
    [tool : {"search"}, query : {<<"a">>}, user_id : {<<>>, <<"u">>},
     session_id : {<<>>, <<"s">>}, memory_type : {<<>>, NoteType},
     tags : TagLists, max_results : {8}, rewrite_query : {TRUE},
     return_full_items : {FALSE}]
    \cup
    [tool : {"search"}, query : {<<"a">>}, user_id : {<<"u">>},
     session_id : {<<>>}, memory_type : {<<>>}, tags : {<<>>},
     max_results : BoundInputs, rewrite_query : {TRUE},
     return_full_items : {FALSE}]

QueryListInputs ==
    [tool : {"list"}, user_id : {<<>>}, limit : BoundInputs,
     status_filter : {"completed"}]

QueryInit == Init /\ Truthy(VECTOR_STORE_ID_ENV)

QueryNext ==
    \E t \in Threads :
        \/ SearchFrom(t, QuerySearchInputs)
        \/ ListFrom(t, QueryListInputs)
        \/ ResolveFast(t)
        \/ Search(t)
        \/ SearchFallback(t)
        \/ FilesList(t)
        \/ Finish(t)

QuerySpec == QueryInit /\ [][QueryNext]_vars

\* ---------------------------------------------------- the save tool alone
\* save_memory over texts with and without a secret, every redaction
\* setting and optional attribute, with the collection identifier configured
\* and the default size limit.
MaxSaves == 2

PlainTexts == {<<"a", "b">>, <<"a", "c">>}
SecretTexts == {<<"t", "o", "k", "e", "n", "=", "a">>,
                <<"t", "o", "k", "e", "n", "=", "b">>}

WideSaveInputs ==
    [tool : {"save"}, memory : PlainTexts \cup SecretTexts,
     user_id : {<<"u">>}, session_id : {<<>>}, memory_type : {NoteType},
     tags : {<<>>}, redact_secrets : {"None", "True", "False"}]
    \cup
    [tool : {"save"}, memory : {<<"a", "b">>},
     user_id : {<<"u">>}, session_id : {<<>>, <<"s">>},
     memory_type : {NoteType}, tags : TagLists, redact_secrets : {"None"}]

\* The process after import with the identifier configured and the default
\* size limit, no call in progress; locals are the callers' locals.
ConfiguredInit(locals) ==
    /\ VECTOR_STORE_ID_ENV = EnvId
    /\ MAX_MEMORY_CHARS = DefaultMaxChars
    /\ vector_store_id_cache = VECTOR_STORE_ID_ENV
    /\ vector_store_lock = NoThread
    /\ pc = [t \in Threads |-> "idle"]
    /\ op = [t \in Threads |-> "none"]
    /\ loc = locals
    /\ res = [t \in Threads |-> NoResult]
    /\ log = [t \in Threads |-> <<>>]
    /\ stores = <<>>
    /\ files = <<>>
    /\ nextFile = 0
    /\ faults = 0
    /\ scans = 0
    /\ creates = [ok |-> 0, failed |-> 0]

SaveInit == ConfiguredInit([t \in Threads |-> NoLocals])

SaveNext ==
    \E t \in Threads :
        \/ SaveFrom(t, WideSaveInputs, MaxSaves)
        \/ ResolveFast(t)
        \/ Upload(t)
        \/ Update(t)
        \/ Finish(t)

SaveSpec == SaveInit /\ [][SaveNext]_vars

\* --------------------------------------------------- the redactor alone
\* _redact_secrets applied to a text and to its own output.  The texts are
\* the concatenations of at most MaxPieces pieces that the five patterns are
\* made of.
MaxPieces == 3

SecretPieces ==
    {<<"t", "o", "k", "e", "n">>, <<"=">>, <<" ">>, <<"'">>, <<"a">>, <<"-">>,
     <<"B", "e", "a", "r", "e", "r">>, <<"a", "p", "i", " ", "k", "e", "y">>,
     <<"A", "K", "I", "A", "0", "1", "2", "3", "4", "5", "6", "7", "8", "9",
       "A", "B", "C", "D", "E", "F">>}

RECURSIVE Join(_)
Join(parts) == IF parts = <<>> THEN <<>> ELSE Head(parts) \o Join(Tail(parts))

RedactTexts ==
    {Join(parts) : parts \in UNION {[1..k -> SecretPieces] : k \in 0..MaxPieces}}

Redactor == 1

RedactInit ==
    \E x \in RedactTexts :
        ConfiguredInit([t \in Threads |->
                          IF t = Redactor
                          THEN [NoLocals EXCEPT !.args = [tool |-> "redact",
                                                          memory |-> x]]
                          ELSE NoLocals])

\* redacted = _redact_secrets(text)
Redact ==
    /\ pc[Redactor] = "idle"
    /\ pc' = [pc EXCEPT ![Redactor] = "redacted"]
    /\ op' = [op EXCEPT ![Redactor] = "redact"]
    /\ loc' = [loc EXCEPT ![Redactor].cleaned =
                             RedactSecrets(loc[Redactor].args.memory)]
    /\ UNCHANGED <<config, resolverState, res, log, files, nextFile, faults>>

\* _redact_secrets(redacted)
RedactAgain ==
    /\ pc[Redactor] = "redacted"
    /\ Return(Redactor, [status |-> "ok",
                         text |-> RedactSecrets(loc[Redactor].cleaned)])
    /\ UNCHANGED <<config, resolverState, op, loc, log, files, nextFile,
                   faults>>

RedactNext == Redact \/ RedactAgain

RedactSpec == RedactInit /\ [][RedactNext]_vars

\* --------------------------------------------------- the resolver, fairly
\* Calls of one tool, so that every call goes through the resolver, under
\* the scheduling the threads run with: a thread that can take its next
\* resolver step (a waiter on the lock: while the lock stays free) takes it.
ResolverStep(t) ==
    \/ ResolveFast(t)
    \/ AcquireLock(t)
    \/ DoubleCheck(t)
    \/ ListPage(t)
    \/ CreateStore(t)

ResolverNext ==
    \E t \in Threads :
        \/ DeleteCall(t)
        \/ ResolverStep(t)
        \/ Delete(t)
        \/ Finish(t)

ResolverFairSpec ==
    /\ Init
    /\ [][ResolverNext]_vars
    /\ \A t \in Threads : WF_vars(ResolverStep(t))

\* ------------------------------------------- save, then search and list
\* One document saved with attribute arguments within and beyond the size
\* ceiling of line 335, and searches and lists with the same arguments.
LongUser == [i \in 1..(AttrStrMax + 1) |-> "u"]

RoundTripSaveInputs ==
    [tool : {"save"}, memory : {<<"a", "b">>}, user_id : {<<"u">>, LongUser},
     session_id : {<<>>, <<"s">>}, memory_type : {NoteType},
     tags : {<<>>, <<<<"a">>>>}, redact_secrets : {"None"}]

RoundTripSearchInputs ==
    [tool : {"search"}, query : {<<"a">>}, user_id : {<<"u">>, LongUser},
     session_id : {<<>>, <<"s">>}, memory_type : {NoteType},
     tags : {<<>>, <<<<"a">>>>}, max_results : {8}, rewrite_query : {TRUE},
     return_full_items : {TRUE}]

RoundTripListInputs ==
    [tool : {"list"}, user_id : {<<"u">>, LongUser}, limit : {20},
     status_filter : {"completed"}]

RoundTripNext ==
    \E t \in Threads :
        \/ SaveFrom(t, RoundTripSaveInputs, MaxUploads)
        \/ SearchFrom(t, RoundTripSearchInputs)
        \/ ListFrom(t, RoundTripListInputs)
        \/ ResolveFast(t)
        \/ Upload(t)
        \/ Update(t)
        \/ Search(t)
        \/ SearchFallback(t)
        \/ FilesList(t)
        \/ ListRetrieve(t)
        \/ Finish(t)

RoundTripSpec == SaveInit /\ [][RoundTripNext]_vars

\* ================================================================ claims
\* The resolver has returned an identifier to the caller's current call.
HasResolved(t) == Truthy(loc[t].vector_store_id)

\* The calls of one kind in a log, in order.
CallsOf(entries, call) == SelectSeq(entries, LAMBDA x : x.call = call)

Finished(t) == pc[t] \in {"returned", "raised"}

\* C1: with the cache unset at start and no remote call failing, at most one
\* resolver call begins the find-or-create round trip, exactly one has begun
\* it once any call has an identifier, and every call that has an identifier
\* holds the same one (the cached one).
C1_OneRoundTrip ==
    (VECTOR_STORE_ID_ENV = NoId /\ faults = 0) =>
        /\ scans <= 1
        /\ \A t \in Threads :
              HasResolved(t) =>
                 /\ scans = 1
                 /\ loc[t].vector_store_id = vector_store_id_cache
        /\ \A t, u \in Threads :
              (HasResolved(t) /\ HasResolved(u)) =>
                 loc[t].vector_store_id = loc[u].vector_store_id

\* A caller that raced for the lock finds the cache filled by the one round
\* trip of another caller, which already holds the identifier.
C1_Witness ==
    /\ VECTOR_STORE_ID_ENV = NoId
    /\ faults = 0
    /\ scans = 1
    /\ \E t, u \in Threads :
          /\ t # u
          /\ pc[t] = "dcheck"
          /\ Truthy(vector_store_id_cache)
          /\ HasResolved(u)
          /\ log[u] # <<>>

\* C2 as stated: the create-collection call is issued at most once in the
\* life of the process, failed calls included.
C2_CreateIssuedOnce == creates.ok + creates.failed <= 1

\* C2 amended: at most one create-collection call returns an identifier, and
\* once one has, no caller is left scanning or about to create (a further
\* call is issued only after a create-collection call that raised).
C2_CreateSucceedsOnce ==
    /\ creates.ok <= 1
    /\ creates.ok = 1 => \A t \in Threads : pc[t] \notin {"scan", "create"}

\* A create-collection call raised and a later one returned.
C2_Witness == creates.failed >= 1 /\ creates.ok = 1

\* C3: no tool operation raises past its own boundary.
C3_NothingRaises == \A t \in Threads : pc[t] # "raised"

\* The save whose upload returned and whose attribute update raised.
PhaseTwoFailed(t) ==
    /\ op[t] = "save"
    /\ pc[t] = "returned"
    /\ \E i \in 1..Len(log[t]) : log[t][i].call = "upload" /\ log[t][i].ok
    /\ \E i \in 1..Len(log[t]) : log[t][i].call = "update" /\ ~log[t][i].ok

\* What save_memory returns when its upload raised.
UploadFailureResults == {ErrorResult(StrOf(e)) : e \in Failures("upload")}

\* C4: the result of a save whose phase 2 failed after phase 1 succeeded
\* carries the document id of phase 1, or is otherwise no result an upload
\* failure gives.
C4_PartialWriteDistinguishable ==
    \A t \in Threads :
        PhaseTwoFailed(t) =>
            \/ /\ "file_id" \in DOMAIN res[t]
               /\ res[t].file_id = loc[t].file_id
            \/ res[t] \notin UploadFailureResults

\* C5: once set, the cached identifier never changes, and every identifier
\* the resolver has returned is the cached one.
C5_CacheStable ==
    [][ /\ Truthy(vector_store_id_cache) =>
              vector_store_id_cache' = vector_store_id_cache
        /\ \A t \in Threads :
              Truthy(loc'[t].vector_store_id) =>
                 loc'[t].vector_store_id = vector_store_id_cache' ]_vars

\* The cache was set by a resolution and a later call got the identifier
\* without a round trip of its own.
C5_Witness ==
    /\ VECTOR_STORE_ID_ENV = NoId
    /\ creates.ok = 1
    /\ \E t \in Threads :
          /\ HasResolved(t)
          /\ log[t] = <<>>
          /\ loc[t].vector_store_id = vector_store_id_cache

\* C6: a resolver call entered with the cache set returns the cached
\* identifier in its first step, the lock untouched and no list-collections
\* or create-collection call issued; with an identifier from the environment
\* the lock is never taken and no round trip is ever begun.
C6_FastPath ==
    [][ /\ \A t \in Threads :
              (pc[t] = "resolve" /\ Truthy(vector_store_id_cache)
                 /\ pc'[t] # "resolve") =>
                 /\ pc'[t] = BodyStart(op[t])
                 /\ loc'[t].vector_store_id = vector_store_id_cache
                 /\ log'[t] = log[t]
                 /\ UNCHANGED <<vector_store_lock, stores, scans, creates>>
        /\ Truthy(VECTOR_STORE_ID_ENV) =>
              /\ vector_store_lock' = NoThread
              /\ scans' = 0
              /\ creates' = [ok |-> 0, failed |-> 0] ]_vars

\* Every caller holds the identifier the environment supplied.
C6_Witness ==
    /\ Truthy(VECTOR_STORE_ID_ENV)
    /\ \A t \in Threads :
          /\ HasResolved(t)
          /\ loc[t].vector_store_id = VECTOR_STORE_ID_ENV
          /\ ~Finished(t)

IsBlank(text) == \A i \in 1..Len(text) : text[i] \in Whitespace

InvalidInput(tool, args) ==
    \/ tool = "save" /\ (IsBlank(args.memory) \/ Len(args.memory) > MAX_MEMORY_CHARS)
    \/ tool = "search" /\ IsBlank(args.query)

\* C7: a save whose memory is blank or over the ceiling, and a search whose
\* query is blank, return an error in the step that takes the call, with no
\* remote call issued and the cache, the lock and the service untouched.
C7_ValidationFailsFast ==
    [][ \A t \in Threads :
           (pc[t] = "idle" /\ pc'[t] # "idle"
              /\ InvalidInput(op'[t], loc'[t].args)) =>
              /\ pc'[t] = "returned"
              /\ res'[t].status = "error"
              /\ log'[t] = <<>>
              /\ UNCHANGED <<vector_store_id_cache, vector_store_lock, stores,
                             files, nextFile, faults, scans, creates>> ]_vars

\* A save over the ceiling and a search of blanks have each been refused.
C7_Witness ==
    \E t, u \in Threads :
        /\ t # u
        /\ op[t] = "save" /\ pc[t] = "returned" /\ log[t] = <<>>
        /\ Len(loc[t].args.memory) > MAX_MEMORY_CHARS
        /\ op[u] = "search" /\ pc[u] = "returned" /\ log[u] = <<>>
        /\ loc[u].args.query = <<" ">>

C9_NoRetryNoRollback ==
    \A t \in Threads :
        op[t] = "save" =>
            LET uploads == CallsOf(log[t], "upload")
                updates == CallsOf(log[t], "update")
            IN /\ Len(uploads) <= 1
               /\ Len(updates) <= 1
               /\ Len(updates) = 1 => (Len(uploads) = 1 /\ uploads[1].ok)
               /\ CallsOf(log[t], "delete") = <<>>

\* A save has returned after its attribute update raised, the document left
\* in the collection without attributes.
C9_Witness ==
    \E t \in Threads :
        /\ PhaseTwoFailed(t)
        /\ HasFile(files, loc[t].vector_store_id, loc[t].file_id)
        /\ FileOf(files, loc[t].file_id).attributes = NoAttrs

\* C10: every attribute update of a save names the document its upload
\* returned, in the collection the resolver returned; the save returns a
\* success result exactly when both calls returned, and the document of a
\* success result, while in the collection, carries the returned attributes.
C10_TwoPhaseWrite ==
    \A t \in Threads :
        op[t] = "save" =>
            LET uploads == CallsOf(log[t], "upload")
                updates == CallsOf(log[t], "update")
            IN /\ \A i \in 1..Len(updates) :
                     /\ Len(uploads) = 1
                     /\ uploads[1].ok
                     /\ updates[i].fid = uploads[1].fid
                     /\ updates[i].vs = loc[t].vector_store_id
                     /\ uploads[1].vs = loc[t].vector_store_id
               /\ pc[t] = "returned" =>
                     /\ res[t].status \in {"saved", "error"}
                     /\ res[t].status = "saved" <=>
                           /\ Len(uploads) = 1 /\ uploads[1].ok
                           /\ Len(updates) = 1 /\ updates[1].ok
                     /\ res[t].status = "saved" =>
                           /\ res[t].file_id = uploads[1].fid
                           /\ res[t].vector_store_id = loc[t].vector_store_id
                           /\ HasFile(files, res[t].vector_store_id,
                                      res[t].file_id) =>
                                 FileOf(files, res[t].file_id).attributes
                                    = res[t].attributes

\* A save has returned a success result and its document is tagged.
C10_Witness ==
    \E t \in Threads :
        /\ op[t] = "save"
        /\ pc[t] = "returned"
        /\ res[t].status = "saved"
        /\ HasFile(files, res[t].vector_store_id, res[t].file_id)
        /\ FileOf(files, res[t].file_id).attributes = res[t].attributes
        /\ "user_id" \in DOMAIN res[t].attributes

\* attrs.get("user_id") == user_id
HasUser(attrs, user_id) ==
    "user_id" \in DOMAIN attrs /\ attrs.user_id = user_id

\* C11: a list result has count equal to the number of its items, every item
\* carries the supplied user_id (when one is supplied), has_more and last_id
\* are those of the page the service returned; and each document of the page
\* that is retrieved is kept exactly when no user_id is supplied or its
\* attributes carry that user_id, so a page without such a document gives
\* count 0 and no items.
C11_ListCountAfterFilter ==
    /\ [](\A t \in Threads :
            (op[t] = "list" /\ pc[t] = "returned") =>
                LET r == res[t]
                    u == loc[t].args.user_id
                IN /\ r.status = "ok"
                   /\ r.count = Len(r.items)
                   /\ r.items = loc[t].items
                   /\ Truthy(u) =>
                        \A i \in 1..Len(r.items) :
                            HasUser(r.items[i].attributes, u)
                   /\ r.has_more = loc[t].page.has_more
                   /\ r.last_id = loc[t].page.last_id
                   /\ Len(CallsOf(log[t], "files_list")) = 1
                   /\ r.count <= Len(CallsOf(log[t], "retrieve")))
    /\ [][\A t \in Threads :
            (/\ pc[t] = "list_retrieve"
             /\ Len(log'[t]) = Len(log[t]) + 1
             /\ log'[t][Len(log'[t])].ok) =>
                LET u == loc[t].args.user_id
                    fid == Head(loc[t].todo)
                    attrs == FileOf(files, fid).attributes
                IN /\ log'[t][Len(log'[t])].fid = fid
                   /\ loc'[t].items =
                        IF ~Truthy(u) \/ HasUser(attrs, u)
                        THEN Append(loc[t].items,
                                    [file_id |-> fid, status |-> "completed",
                                     attributes |-> attrs])
                        ELSE loc[t].items]_vars

\* A list for a user_id that no document carries has returned count 0 from a
\* page that held a document.
C11_Witness ==
    \E t \in Threads :
        /\ op[t] = "list"
        /\ pc[t] = "returned"
        /\ Truthy(loc[t].args.user_id)
        /\ res[t].count = 0
        /\ res[t].items = <<>>
        /\ Truthy(res[t].last_id)
        /\ \E i \in 1..Len(log[t]) : log[t][i].call = "retrieve" /\ log[t][i].ok

\* The filter arguments of a search in the builder's order, and their keys.
Given(a) == <<a.user_id, a.session_id, a.memory_type, a.tags>>
FilterKeys == <<"user_id", "session_id", "type", "tags_json">>
Present(a) == {i \in 1..4 : Truthy(Given(a)[i])}
LeafFor(a, i) ==
    [type |-> "eq", key |-> FilterKeys[i],
     value |-> IF i = 4 THEN JsonDumps(a.tags) ELSE Given(a)[i]]
Leaves(f) ==
    IF f = NoFilter THEN <<>>
    ELSE IF f.type = "and" THEN f.filters
    ELSE <<f>>

\* C12: the filter a search builds is null when all four arguments are empty,
\* the bare equality leaf when exactly one is non-empty, and otherwise a
\* conjunction; its leaves are one equality leaf per non-empty argument, in
\* the order user_id, session_id, type, tags.
C12_FilterShape ==
    \A t \in Threads :
        (op[t] = "search" /\ ~QueryIsEmpty(loc[t].args.query)) =>
            LET a == loc[t].args
                f == loc[t].attribute_filter
                n == Cardinality(Present(a))
            IN /\ (n = 0) <=> (f = NoFilter)
               /\ (n = 1) => f = LeafFor(a, CHOOSE i \in Present(a) : TRUE)
               /\ (n >= 2) => (f.type = "and" /\ DOMAIN f = {"type", "filters"})
               /\ Len(Leaves(f)) = n
               /\ \A i \in Present(a) :
                     Leaves(f)[Cardinality({k \in Present(a) : k <= i})]
                        = LeafFor(a, i)

\* Searches with four, one and no filter argument have been built and sent.
C12_Witness ==
    /\ \E t \in Threads :
          /\ op[t] = "search"
          /\ Cardinality(Present(loc[t].args)) = 4
          /\ loc[t].attribute_filter.type = "and"
          /\ Len(loc[t].attribute_filter.filters) = 4
          /\ Len(log[t]) > 0
    /\ \E t \in Threads :
          /\ op[t] = "search"
          /\ Present(loc[t].args) = {4}
          /\ loc[t].attribute_filter.type = "eq"
          /\ Len(log[t]) > 0

\* max(1, min(n, top)), case by case
Clamped(n, top) == IF n < 1 THEN 1 ELSE IF n > top THEN top ELSE n

\* C13: every search call is passed max_num_results = max(1, min(max_results,
\* 50)) and every files.list call is passed limit = max(1, min(limit, 100)),
\* whatever integer the caller gave.
C13_BoundsClamped ==
    \A t \in Threads :
        \A i \in 1..Len(log[t]) :
            LET e == log[t][i]
            IN /\ e.call = "search" =>
                    /\ e.bound = Clamped(loc[t].args.max_results, 50)
                    /\ e.bound \in 1..50
               /\ e.call = "files_list" =>
                    /\ e.bound = Clamped(loc[t].args.limit, 100)
                    /\ e.bound \in 1..100

\* A search given 0 was sent 1 while a list given 500 was sent 100.
C13_Witness ==
    \E t, u \in Threads :
        /\ op[t] = "search"
        /\ loc[t].args.max_results = 0
        /\ \E i \in 1..Len(log[t]) :
              log[t][i].call = "search" /\ log[t][i].bound = 1
        /\ op[u] = "list"
        /\ loc[u].args.limit = 500
        /\ \E i \in 1..Len(log[u]) :
              log[u][i].call = "files_list" /\ log[u][i].bound = 100

\* A save has returned a success result.
Saved(t) == op[t] = "save" /\ pc[t] = "returned" /\ res[t].status = "saved"

\* The text of the document a success result names.
UploadedText(t) == FileOf(files, res[t].file_id).text

\* Two texts of one length that differ at exactly one position.
OneCharApart(x, y) ==
    /\ Len(x) = Len(y)
    /\ Cardinality({i \in 1..Len(x) : x[i] # y[i]}) = 1

\* The redaction flag line 312 puts into effect.
EffectiveRedact(a) ==
    \/ a.redact_secrets = "True"
    \/ a.redact_secrets = "None" /\ REDACT_SECRETS_DEFAULT

SameButMemory(a, b) == [a EXCEPT !.memory = <<>>] = [b EXCEPT !.memory = <<>>]

\* C14 as stated: two saves under the default settings whose texts differ in
\* one character never return the same content hash.
C14_OneCharChangesHash ==
    \A t, u \in Threads :
        (/\ Saved(t) /\ Saved(u)
         /\ loc[t].args.redact_secrets = "None"
         /\ SameButMemory(loc[t].args, loc[u].args)
         /\ OneCharApart(loc[t].args.memory, loc[u].args.memory))
            => res[t].sha256 # res[u].sha256

\* C14 as the code has it: two saves return the same content hash exactly
\* when the texts they uploaded (after redaction, if in effect) are the same;
\* so a change of one character changes the hash when it changes the
\* uploaded text, which it always does with redaction off.
C14_HashFollowsUploadedText ==
    \A t, u \in Threads :
        (Saved(t) /\ Saved(u)) =>
            /\ (res[t].sha256 = res[u].sha256)
                  <=> (UploadedText(t) = UploadedText(u))
            /\ (/\ ~EffectiveRedact(loc[t].args)
                /\ ~EffectiveRedact(loc[u].args)
                /\ OneCharApart(loc[t].args.memory, loc[u].args.memory))
                  => res[t].sha256 # res[u].sha256

\* Two default saves one character apart: one pair with different hashes,
\* reached with texts that hold no secret.
C14_Witness ==
    \E t, u \in Threads :
        /\ Saved(t) /\ Saved(u)
        /\ loc[t].args.redact_secrets = "None"
        /\ loc[u].args.redact_secrets = "None"
        /\ OneCharApart(loc[t].args.memory, loc[u].args.memory)
        /\ UploadedText(t) # UploadedText(u)
        /\ res[t].sha256 # res[u].sha256

\* C15: the content hash of a success result is the hash of the text of the
\* uploaded document, that text is the redacted text when redaction is in
\* effect and the caller's text otherwise, the sha256 attribute sent and
\* stored equals it, and two saves of the same arguments return the same.
C15_HashOfUploadedText ==
    \A t \in Threads :
        Saved(t) =>
            LET a == loc[t].args
            IN /\ UploadedText(t) = IF EffectiveRedact(a)
                                    THEN RedactSecrets(a.memory)
                                    ELSE a.memory
               /\ res[t].sha256 = Sha256Text(UploadedText(t))
               /\ res[t].attributes.sha256 = res[t].sha256
               /\ FileOf(files, res[t].file_id).attributes.sha256
                     = res[t].sha256
               /\ \A u \in Threads :
                     (/\ Saved(u)
                      /\ loc[u].args.memory = a.memory
                      /\ EffectiveRedact(loc[u].args) = EffectiveRedact(a))
                        => res[u].sha256 = res[t].sha256

\* A redacting save of a text with a secret and a second save of the same
\* text have returned; the uploaded text is not the caller's.
C15_Witness ==
    \E t, u \in Threads :
        /\ t # u
        /\ Saved(t) /\ Saved(u)
        /\ loc[t].args.memory = loc[u].args.memory
        /\ EffectiveRedact(loc[t].args) /\ EffectiveRedact(loc[u].args)
        /\ UploadedText(t) # loc[t].args.memory
        /\ res[t].sha256 = res[u].sha256
        /\ res[t].file_id # res[u].file_id

\* C16: the attribute mapping of a success result is the mapping the
\* document got; its keys are user_id, type, timestamp_utc, sha256, redacted,
\* plus session_id exactly when a non-empty session_id was given and
\* tags_json exactly when a non-empty tag list was given; redacted is the
\* redaction flag in effect.
C16_ReturnedAttributes ==
    \A t \in Threads :
        Saved(t) =>
            LET a == loc[t].args
                attrs == res[t].attributes
            IN /\ attrs = FileOf(files, res[t].file_id).attributes
               /\ DOMAIN attrs =
                     {"user_id", "type", "timestamp_utc", "sha256", "redacted"}
                        \cup (IF a.session_id # <<>> THEN {"session_id"} ELSE {})
                        \cup (IF a.tags # <<>> THEN {"tags_json"} ELSE {})
               /\ attrs.redacted = EffectiveRedact(a)
               /\ Len(CallsOf(log[t], "update")) = 1

\* Success results with and without the optional attributes, and with the
\* redaction override off.
C16_Witness ==
    /\ \E t \in Threads :
          /\ Saved(t)
          /\ {"session_id", "tags_json"} \subseteq DOMAIN res[t].attributes
          /\ res[t].attributes.redacted
    /\ \E t \in Threads :
          /\ Saved(t)
          /\ loc[t].args.redact_secrets = "False"
          /\ ~res[t].attributes.redacted
          /\ "session_id" \notin DOMAIN res[t].attributes
          /\ "tags_json" \notin DOMAIN res[t].attributes

\* The messages a failing delete call can carry.
DeleteMessages == {e.msg : e \in Failures("delete") \cup {NotFound}}

\* C17: a delete whose remote delete call failed (as it does for a document
\* the service does not know) has returned, not raised, a result with status
\* error that carries the message of the failure and names the collection
\* and the document.
C17_DeleteFailureReturned ==
    \A t \in Threads :
        (/\ op[t] = "delete"
         /\ \E i \in 1..Len(log[t]) :
               log[t][i].call = "delete" /\ ~log[t][i].ok) =>
            /\ pc[t] = "returned"
            /\ res[t].status = "error"
            /\ res[t].error \in DeleteMessages
            /\ res[t].file_id = loc[t].args.file_id
            /\ res[t].vector_store_id = loc[t].vector_store_id

\* A delete of a document the collection does not hold has returned the
\* service's refusal.
C17_Witness ==
    \E t \in Threads :
        /\ op[t] = "delete"
        /\ pc[t] = "returned"
        /\ res[t].status = "error"
        /\ res[t].error = NotFound.msg
        /\ ~HasFile(files, loc[t].vector_store_id, loc[t].args.file_id)
        /\ \E i \in 1..Len(log[t]) :
              log[t][i].call = "delete" /\ ~log[t][i].ok

\* The error get_memory_content gives for a client without files.content.
CapabilityGapMessage ==
    ContentError(AttributeError, NoId, NoId, NoAttrs).error

\* C18 as stated: a get has returned the capability-gap error only when the
\* client lacked the content call (the call raised AttributeError).
C18_GapOnlyWhenMissing ==
    \A t \in Threads :
        (/\ op[t] = "get"
         /\ pc[t] = "returned"
         /\ res[t].status = "error"
         /\ res[t].error = CapabilityGapMessage) =>
            \E i \in 1..Len(log[t]) :
                /\ log[t][i].call = "content"
                /\ ~log[t][i].ok
                /\ log[t][i].arg = "AttributeError"

\* s holds the replacement text [REDACTED].
HoldsRedacted(s) ==
    \E i \in 1..Len(s) :
        i + Len(REDACTED) - 1 <= Len(s)
        /\ SubSeq(s, i, i + Len(REDACTED) - 1) = REDACTED

\* C19: redacting the output of the redactor gives that output again.
C19_RedactIdempotent ==
    (op[Redactor] = "redact" /\ pc[Redactor] = "returned") =>
        res[Redactor].text = loc[Redactor].cleaned

\* A text of which the redactor replaced a part, while keeping another, has
\* been redacted twice.
C19_Witness ==
    /\ op[Redactor] = "redact"
    /\ pc[Redactor] = "returned"
    /\ loc[Redactor].cleaned # loc[Redactor].args.memory
    /\ HoldsRedacted(loc[Redactor].cleaned)
    /\ Len(loc[Redactor].cleaned) > Len(REDACTED)
    /\ res[Redactor].text = loc[Redactor].cleaned

\* Positions in the listing of the collections with the configured name.
Named == {i \in 1..Len(stores) : stores[i].name = VECTOR_STORE_NAME}

\* C20: a resolver is about to issue create-collection only when the listing
\* holds no collection with the configured name and its scan has paged
\* through the whole listing; an identifier the resolver cached is that of
\* the first collection with the name in listing order; and once a create
\* has been issued the listing never holds more than one such collection.
C20_CreateOnlyWhenAbsent ==
    /\ \A t \in Threads :
          pc[t] = "create" =>
              /\ Named = {}
              /\ ~Truthy(vector_store_id_cache)
              /\ vector_store_lock = t
              /\ \A i \in 1..Len(log[t]) : log[t][i].ok
              /\ Len(CallsOf(log[t], "list_stores"))
                    * Min(ListLimit, ServerPageCap) >= Len(stores)
    /\ (VECTOR_STORE_ID_ENV = NoId /\ Truthy(vector_store_id_cache)) =>
          \E i \in Named :
              /\ stores[i].id = vector_store_id_cache
              /\ \A j \in Named : i <= j
    /\ (creates.ok + creates.failed > 0) => Cardinality(Named) <= 1
    /\ (creates.ok + creates.failed = 0) =>
          \A t \in Threads : CallsOf(log[t], "create_store") = <<>>

\* A resolver paged through a listing of several collections, none with the
\* name, created one, cached and returned it.
C20_Witness ==
    \E t \in Threads :
        /\ HasResolved(t)
        /\ creates.ok = 1
        /\ Len(stores) > 2
        /\ Len(CallsOf(log[t], "list_stores")) >= 2
        /\ Len(CallsOf(log[t], "create_store")) = 1
        /\ Named = {Len(stores)}
        /\ vector_store_id_cache = stores[Len(stores)].id

\* The last remote call of t's current invocation was a resolver call that
\* failed.
ResolverFailed(entries) ==
    /\ entries # <<>>
    /\ entries[Len(entries)].call \in {"list_stores", "create_store"}
    /\ ~entries[Len(entries)].ok

\* C21: a listing or create call of the resolver that fails makes the
\* resolver raise that failure out of the tool, leaves the cache unset and
\* releases the lock in the same step; and with the identifier not
\* configured the find-or-create round trips begun never exceed the failures
\* by more than one, so each attempt after a failed one runs its own.
C21_ResolverFailurePropagates ==
    /\ [][\A t \in Threads :
            (/\ pc[t] \in {"scan", "create"}
             /\ Len(log'[t]) = Len(log[t]) + 1
             /\ ResolverFailed(log'[t])) =>
                /\ pc'[t] = "raised"
                /\ res'[t].exception = log'[t][Len(log'[t])].arg
                /\ vector_store_lock = t
                /\ vector_store_lock' = NoThread
                /\ vector_store_id_cache = NoId
                /\ vector_store_id_cache' = NoId]_vars
    /\ [](\A t \in Threads :
            (pc[t] = "raised" /\ ResolverFailed(log[t])) =>
                /\ vector_store_lock # t
                /\ ~HasResolved(t))
    /\ [](VECTOR_STORE_ID_ENV = NoId => scans <= faults + 1)

\* One call's resolution failed and another call, by its own round trip,
\* has an identifier.
C21_Witness ==
    \E t, u \in Threads :
        /\ pc[t] = "raised"
        /\ ResolverFailed(log[t])
        /\ HasResolved(u)
        /\ CallsOf(log[u], "list_stores") # <<>>
        /\ scans = 2
        /\ vector_store_id_cache = loc[u].vector_store_id

\* t is inside the resolver.
Resolving(t) == pc[t] \in {"resolve", "lock", "dcheck", "scan", "create"}

SameFilterArgs(a, b) ==
    /\ a.user_id = b.user_id
    /\ a.session_id = b.session_id
    /\ a.memory_type = b.memory_type
    /\ a.tags = b.tags

\* The file ids of the items of a result.
ItemIds(items) == {items[i].file_id : i \in 1..Len(items)}

\* C23 as stated: a search with the arguments of a save that has returned
\* success returns that save's document, and a list with the save's user_id
\* keeps it.
C23_FilterRoundTrip ==
    [][\A t, u \in Threads :
          Saved(t) =>
              /\ (/\ pc[u] = "search"
                  /\ pc'[u] = "returned"
                  /\ SameFilterArgs(loc[u].args, loc[t].args))
                    => res[t].file_id \in ItemIds(res'[u].results)
              /\ (/\ pc[u] = "list_retrieve"
                  /\ pc'[u] = "returned"
                  /\ loc[u].args.user_id = loc[t].args.user_id)
                    => res[t].file_id \in ItemIds(res'[u].items)]_vars

====
